---- MODULE Spec2Model ----
(***************************************************************************)
(* Model of src/pack_index/network.rs: the `update` pipeline that turns a  *)
(* list of vidx urls into downloaded pdsc files.                           *)
(*                                                                         *)
(* Strings are sequences of one-character strings, so that format!,        *)
(* ends_with and Uri parsing are computed on the text.  The event loop is  *)
(* single threaded: one action is the processing of one ready item during  *)
(* a poll of the collected stream.                                         *)
(***************************************************************************)
EXTENDS Naturals, Integers, Sequences, FiniteSets, Bags, TLC

\* ------------------------------------------------------------------------
\* Bounds of the model
\* ------------------------------------------------------------------------
MaxRedirects == 1   \* redirect hops alive at one time, over all fetches
ManyRefs == 33      \* length of the long pdsc_index (more than the buffer)
MaxHops == 3        \* redirect responses given to the observed download

\* ------------------------------------------------------------------------
\* Text
\* ------------------------------------------------------------------------
Scheme == <<"h", "t", "t", "p", ":", "/", "/">>
PIDX_SUFFIX == <<".", "p", "i", "d", "x">>
PdscSuffix == <<".", "p", "d", "s", "c">>
StoreDir == <<"s", "/">>

Contains(s, p) ==
    \E i \in 1..(Len(s) + 1 - Len(p)) : SubSeq(s, i, i + Len(p) - 1) = p

EndsWith(s, c) == Len(s) > 0 /\ s[Len(s)] = c

\* index of the first "/" at or after position i, Len(s)+1 when there is none
RECURSIVE SlashFrom(_, _)
SlashFrom(s, i) ==
    IF i > Len(s) THEN Len(s) + 1
    ELSE IF s[i] = "/" THEN i ELSE SlashFrom(s, i + 1)

IsAbsolute(s) == Len(s) > Len(Scheme) /\ SubSeq(s, 1, Len(Scheme)) = Scheme

\* str::parse::<Uri>: origin form "/path", absolute form "http://host/path"
\* (an empty path becomes "/"), authority form "host"; anything else, the
\* empty string included, is a UriError.
UriParses(s) ==
    /\ s # <<>>
    /\ \/ s[1] = "/"
       \/ IsAbsolute(s) /\ SlashFrom(s, Len(Scheme) + 1) > Len(Scheme) + 1
       \/ ~Contains(s, <<"/">>)

ParseUri(s) ==
    IF IsAbsolute(s) /\ SlashFrom(s, Len(Scheme) + 1) > Len(s)
    THEN s \o <<"/">>
    ELSE s

\* Uri::authority: the empty sequence stands for None
Authority(u) ==
    IF u[1] = "/" THEN <<>>
    ELSE IF IsAbsolute(u)
         THEN SubSeq(u, Len(Scheme) + 1, SlashFrom(u, Len(Scheme) + 1) - 1)
         ELSE u

UriPath(u) ==
    IF u[1] = "/" THEN u
    ELSE IF IsAbsolute(u)
         THEN SubSeq(u, SlashFrom(u, Len(Scheme) + 1), Len(u))
         ELSE <<>>

\* ------------------------------------------------------------------------
\* The documents of the index (super::{PdscRef, Vidx, Pidx})
\* ------------------------------------------------------------------------
HostH == Scheme \o <<"h">>
HostG == Scheme \o <<"g">>

PdscRef(url, vendor, name, version) ==
    [url |-> url, vendor |-> vendor, name |-> name, version |-> version]

Pidx(url, vendor) == [url |-> url, vendor |-> vendor]

Vidx(vendor_index, pdsc_index) ==
    [vendor_index |-> vendor_index, pdsc_index |-> pdsc_index]

Leaf1 == PdscRef(HostH \o <<"/">>, <<"v">>, <<"n">>, <<"1">>)
Leaf1Mirror == PdscRef(HostG, <<"v">>, <<"n">>, <<"1">>)
Leaf2 == PdscRef(HostH \o <<"/">>, <<"v">>, <<"n">>, <<"2">>)
LeafBadUrl == PdscRef(<<"h", "/">>, <<"v">>, <<"n">>, <<"3">>)

RootA == Vidx(<<Pidx(HostH \o <<"/">>, <<"v">>), Pidx(<<"h", "/">>, <<"v">>)>>,
              <<Leaf1, Leaf1Mirror>>)
RootB == Vidx(<<Pidx(HostG \o <<"/">>, <<"v">>)>>, <<>>)
RootC == Vidx(<<>>, [i \in 1..ManyRefs |-> Leaf1])
SubH == Vidx(<<>>, <<Leaf2>>)
SubG == Vidx(<<>>, <<LeafBadUrl>>)

\* bodies are byte strings; the bodies of the index documents are opaque
BodyA == <<"A">>
BodyB == <<"B">>
BodyC == <<"C">>
BodySubH == <<"P">>
BodySubG == <<"Q">>
BodyPdscH == <<"x", "y">>
BodyPdscG == <<"z">>
ErrorPage == <<"e">>

SeedA == HostH \o <<"/", "a">>
SeedB == HostH \o <<"/", "b">>
SeedC == HostH \o <<"/", "c">>
SeedBad == <<"h", "/", "a">>

\* what the servers hold at each uri
Content(u) ==
    LET p == UriPath(u)
        h == Authority(u)
    IN  CASE p = <<"/", "a">> -> BodyA
          [] p = <<"/", "b">> -> BodyB
          [] p = <<"/", "c">> -> BodyC
          [] p = <<"/", "v">> \o PIDX_SUFFIX /\ h = <<"h">> -> BodySubH
          [] p = <<"/", "v">> \o PIDX_SUFFIX /\ h = <<"g">> -> BodySubG
          [] p = <<"/", "v", ".", "n">> \o PdscSuffix /\ h = <<"h">> -> BodyPdscH
          [] p = <<"/", "v", ".", "n">> \o PdscSuffix /\ h = <<"g">> -> BodyPdscG
          [] OTHER -> ErrorPage

\* Vidx::from_string on the lossily decoded body: a Vidx or a parse error
Err == [err |-> TRUE]

IsErr(r) == r = Err

from_string(body) ==
    CASE body = BodyA -> RootA
      [] body = BodyB -> RootB
      [] body = BodyC -> RootC
      [] body = BodySubH -> SubH
      [] body = BodySubG -> SubG
      [] OTHER -> Err

parse_vidx(body) == from_string(body)

\* stream_pdscs: the pdsc_index of the parsed body, nothing on a parse error
stream_pdscs(body) ==
    IF IsErr(parse_vidx(body)) THEN <<>> ELSE parse_vidx(body).pdsc_index

\* ------------------------------------------------------------------------
\* State
\* ------------------------------------------------------------------------
VARIABLES
    vidx_list,  \* the argument of update
    netUp,      \* whether the network is reachable during this call
    prev,       \* what the previous call returned, None before it
    existing,   \* the paths that existed when update was called
    files,      \* the pack store: path |-> content, for the paths that exist
    requested,  \* uris handed to client.get during this call
    rootJobs,   \* FuturesUnordered of download_vidx_list
    cur,        \* Flatten::next of update_inner: the stream of one Vidx
    queue,      \* the futures buffered by buffer_unordered
    updated,    \* the Vec collected so far
    log,        \* lines logged during this call
    ret,        \* "running", or what update returned: "Ok" or "Err"
    current,    \* Redirect::current of the download that is observed
    gets,       \* the uris that download handed to client.get, in order
    redirects   \* the redirect responses that download was polled with

vars == <<vidx_list, netUp, prev, existing, files, requested, rootJobs, cur,
          queue, updated, log, ret, current, gets, redirects>>

\* the variables of the observed download, which update as a whole leaves alone
observed == <<current, gets, redirects>>

None == [none |-> TRUE]

BufferSize == 32

Last(s) == s[Len(s)]

Range(s) == {s[i] : i \in DOMAIN s}

SeqToBag(s) ==
    [x \in Range(s) |-> Cardinality({i \in DOMAIN s : s[i] = x})]

One(x) == SetToBag({x})

LogLine(kind, what) == [kind |-> kind, what |-> what]

\* ------------------------------------------------------------------------
\* Redirect
\* ------------------------------------------------------------------------
RedirectNew(uri) == [urls |-> <<uri>>]

RedirectCodes == {301, 302, 303, 307, 308}

TerminalCodes == {200, 404, 500}

RECURSIVE SumHops(_, _)
SumHops(B, S) ==
    IF S = {} THEN 0
    ELSE LET j == CHOOSE x \in S : TRUE
         IN  (Len(j.urls) - 1) * B[j] + SumHops(B, S \ {j})

Hops(B) == SumHops(B, BagToSet(B))

\* redirect hops of the fetches that are alive
HopsAlive ==
    Hops(rootJobs) + Hops(queue) + (IF cur = None THEN 0 ELSE Hops(cur.subJobs))

\* The answers the transport can give to the request for uri u: a transport
\* error, a redirect whose Location is absent (read as ""), relative or
\* absolute, or any other status with a body.
Responses(u) ==
    {[kind |-> "error"]}
    \cup (IF netUp /\ HopsAlive < MaxRedirects
          THEN {[kind |-> "response", status |-> s, location |-> l, body |-> <<>>] :
                   s \in RedirectCodes,
                   l \in {<<>>, UriPath(u), HostG \o UriPath(u)}}
          ELSE {})
    \cup (IF netUp
          THEN {[kind |-> "response", status |-> 200, location |-> <<>>,
                 body |-> Content(u)]}
               \cup {[kind |-> "response", status |-> s, location |-> <<>>,
                      body |-> ErrorPage] : s \in TerminalCodes \ {200}}
          ELSE {})

\* a Redirect::poll that does not know 308 Permanent Redirect
RedirectPoll_No308(urls, res) ==
    IF res.kind = "error" THEN [state |-> "Err"]
    ELSE IF res.status = 308 THEN [state |-> "Ready", res |-> res]
    ELSE IF res.status \in RedirectCodes
    THEN IF ~UriParses(res.location) THEN [state |-> "Err"]
         ELSE LET uri == ParseUri(res.location)
                  old_uri == Last(urls)
              IN  IF Authority(uri) = <<>> /\ Authority(old_uri) # <<>>
                  THEN IF UriParses(Authority(old_uri) \o uri)
                       THEN [state |-> "NotReady",
                             urls |-> Append(urls, ParseUri(Authority(old_uri) \o uri))]
                       ELSE [state |-> "Err"]
                  ELSE [state |-> "NotReady", urls |-> Append(urls, uri)]
    ELSE [state |-> "Ready", res |-> res]

\* a Redirect::poll that fails on a terminal status of 400 or more
RedirectPoll_Validate(urls, res) ==
    IF res.kind = "error" THEN [state |-> "Err"]
    ELSE IF res.status >= 400 THEN [state |-> "Err"]
    ELSE IF res.status \in RedirectCodes
    THEN IF ~UriParses(res.location) THEN [state |-> "Err"]
         ELSE LET uri == ParseUri(res.location)
                  old_uri == Last(urls)
              IN  IF Authority(uri) = <<>> /\ Authority(old_uri) # <<>>
                  THEN IF UriParses(Authority(old_uri) \o uri)
                       THEN [state |-> "NotReady",
                             urls |-> Append(urls, ParseUri(Authority(old_uri) \o uri))]
                       ELSE [state |-> "Err"]
                  ELSE [state |-> "NotReady", urls |-> Append(urls, uri)]
    ELSE [state |-> "Ready", res |-> res]

\* a Redirect::poll that gives up after two redirects
RedirectPoll_Limit(urls, res) ==
    IF res.kind = "error" THEN [state |-> "Err"]
    ELSE IF res.status \in RedirectCodes /\ Len(urls) > 2 THEN [state |-> "Err"]
    ELSE IF res.status \in RedirectCodes
    THEN IF ~UriParses(res.location) THEN [state |-> "Err"]
         ELSE LET uri == ParseUri(res.location)
                  old_uri == Last(urls)
              IN  IF Authority(uri) = <<>> /\ Authority(old_uri) # <<>>
                  THEN IF UriParses(Authority(old_uri) \o uri)
                       THEN [state |-> "NotReady",
                             urls |-> Append(urls, ParseUri(Authority(old_uri) \o uri))]
                       ELSE [state |-> "Err"]
                  ELSE [state |-> "NotReady", urls |-> Append(urls, uri)]
    ELSE [state |-> "Ready", res |-> res]

\* Redirect::poll once the current request has an answer
RedirectPoll(urls, res) ==
    IF res.kind = "error" THEN [state |-> "Err"]
    ELSE IF res.status \in RedirectCodes
    THEN IF ~UriParses(res.location) THEN [state |-> "Err"]
         ELSE LET uri == ParseUri(res.location)
                  old_uri == Last(urls)
              IN  IF Authority(uri) = <<>> /\ Authority(old_uri) # <<>>
                  THEN IF UriParses(Authority(old_uri) \o uri)
                       THEN [state |-> "NotReady",
                             urls |-> Append(urls, ParseUri(Authority(old_uri) \o uri))]
                       ELSE [state |-> "Err"]
                  ELSE [state |-> "NotReady", urls |-> Append(urls, uri)]
    ELSE [state |-> "Ready", res |-> res]

\* Redirect::new(..).map(Response::body).flatten_stream().concat2()
Fetch(urls, res) ==
    LET r == RedirectPoll(urls, res)
    IN  IF r.state = "Ready"
        THEN [state |-> "Ready", body |-> r.res.body]
        ELSE r

\* ------------------------------------------------------------------------
\* download_vidx_list
\* ------------------------------------------------------------------------
ParsableSeeds(list) == SelectSeq(list, UriParses)

UnparsableSeeds(list) == SelectSeq(list, LAMBDA s : ~UriParses(s))

\* a download_vidx_list that gives up at the first url that does not parse
download_vidx_list_Stop(list) ==
    LET good == IF UnparsableSeeds(list) = <<>> THEN list
                ELSE SubSeq(list, 1, (CHOOSE i \in DOMAIN list :
                                /\ ~UriParses(list[i])
                                /\ \A k \in 1..(i - 1) : UriParses(list[k])) - 1)
    IN  [job |-> SeqToBag([i \in DOMAIN good |-> RedirectNew(ParseUri(good[i]))]),
         log |-> SeqToBag([i \in DOMAIN UnparsableSeeds(list) |->
                              LogLine("UrlDidNotParse", UnparsableSeeds(list)[i])])]

\* the FuturesUnordered of the parsable urls, and the lines logged for the rest
download_vidx_list(list) ==
    [job |-> SeqToBag([i \in DOMAIN ParsableSeeds(list) |->
                          RedirectNew(ParseUri(ParsableSeeds(list)[i]))]),
     log |-> SeqToBag([i \in DOMAIN UnparsableSeeds(list) |->
                          LogLine("UrlDidNotParse", UnparsableSeeds(list)[i])])]

\* the uris for which the futures of a FuturesUnordered called client.get
Requests(job) == {Last(j.urls) : j \in BagToSet(job)}

\* ------------------------------------------------------------------------
\* flatmap_pdscs
\* ------------------------------------------------------------------------
UrlName(pidx) == pidx.url \o pidx.vendor \o PIDX_SUFFIX

ParsablePointers(vidx) ==
    SelectSeq(vidx.vendor_index, LAMBDA p : UriParses(UrlName(p)))

UnparsablePointers(vidx) ==
    SelectSeq(vidx.vendor_index, LAMBDA p : ~UriParses(UrlName(p)))

\* the Chain of the direct refs and of the FuturesUnordered of the pointers
flatmap_pdscs(vidx) ==
    [refs |-> vidx.pdsc_index,
     subJobs |-> SeqToBag([i \in DOMAIN ParsablePointers(vidx) |->
                     RedirectNew(ParseUri(UrlName(ParsablePointers(vidx)[i])))])]

PointerLog(vidx) ==
    SeqToBag([i \in DOMAIN UnparsablePointers(vidx) |->
                 LogLine("UrlDidNotParse", UrlName(UnparsablePointers(vidx)[i]))])

\* ------------------------------------------------------------------------
\* make_uri_fd_pair
\* ------------------------------------------------------------------------
PdscUri(ref) ==
    IF EndsWith(ref.url, "/")
    THEN ref.url \o ref.vendor \o <<".">> \o ref.name \o PdscSuffix
    ELSE ref.url \o <<"/">> \o ref.vendor \o <<".">> \o ref.name \o PdscSuffix

PdscFileName(ref) ==
    ref.vendor \o <<".">> \o ref.name \o <<".">> \o ref.version \o PdscSuffix

place_data_file(name) == StoreDir \o name

Exists(path) == path \in DOMAIN files

\* make_uri_fd_pair without the test of filename.exists()
make_uri_fd_pair_NoSkip(ref, placeOk) ==
    IF ~UriParses(PdscUri(ref)) THEN Err
    ELSE IF ~placeOk THEN Err
    ELSE [uri |-> ParseUri(PdscUri(ref)), url |-> ref.url,
          filename |-> place_data_file(PdscFileName(ref))]

\* placeOk: whether config.pack_store.place_data_file succeeds
make_uri_fd_pair(ref, placeOk) ==
    IF ~UriParses(PdscUri(ref)) THEN Err
    ELSE IF ~placeOk THEN Err
    ELSE IF Exists(place_data_file(PdscFileName(ref))) THEN None
    ELSE [uri |-> ParseUri(PdscUri(ref)), url |-> ref.url,
          filename |-> place_data_file(PdscFileName(ref))]

\* ------------------------------------------------------------------------
\* update: the state in which core.run starts to poll the pipeline
\* ------------------------------------------------------------------------
Path1 == place_data_file(PdscFileName(Leaf1))
Path2 == place_data_file(PdscFileName(Leaf2))

OldContent == <<"o", "l", "d">>

EmptyStore == [p \in {} |-> <<>>]

InitialStores ==
    {EmptyStore, [p \in {Path1} |-> OldContent]}

SeedLists ==
    {<<SeedA, SeedB>>, <<SeedBad, SeedA>>}

Init ==
    /\ vidx_list \in SeedLists
    /\ netUp \in BOOLEAN
    /\ prev = None
    /\ files \in InitialStores
    /\ existing = DOMAIN files
    /\ requested = Requests(download_vidx_list(vidx_list).job)
    /\ rootJobs = download_vidx_list(vidx_list).job
    /\ cur = None
    /\ queue = EmptyBag
    /\ updated = <<>>
    /\ log = download_vidx_list(vidx_list).log
    /\ ret = "running"
    /\ current = None /\ gets = <<>> /\ redirects = 0

\* ------------------------------------------------------------------------
\* The poll of buffer_unordered(32) under filter_map(id).collect()
\* ------------------------------------------------------------------------
Running == ret = "running"

\* a buffer that takes one future more than its size
Room_OffByOne == BagCardinality(queue) <= BufferSize

\* buffer_unordered polls its stream only while the queue is short
Room == BagCardinality(queue) < BufferSize

\* a Flatten that polls the stream of Vidx only before its first inner stream
OuterPolled_NoRepoll == cur = None

\* Flatten polls the stream of Vidx only when it holds no inner stream, or
\* when the inner stream (the Chain of flatmap_pdscs) has ended
InnerEnded == cur # None /\ cur.refs = <<>> /\ cur.subJobs = EmptyBag

OuterPolled == cur = None \/ InnerEnded

\* a PdscRef is ready in the inner stream and the buffer takes it first
PullReady == Room /\ cur # None /\ cur.refs # <<>>

\* an Err item reaches collect: core.run returns it, the pipeline is dropped
Abort ==
    /\ ret' = "Err"
    /\ rootJobs' = EmptyBag
    /\ cur' = None
    /\ queue' = EmptyBag
    /\ updated' = <<>>

\* one future of download_vidx_list makes progress
RootStep(j) ==
    /\ Running /\ Room /\ OuterPolled
    /\ BagIn(j, rootJobs)
    /\ \E res \in Responses(Last(j.urls)) :
        LET f == Fetch(j.urls, res)
        IN  CASE f.state = "NotReady" ->
                   /\ rootJobs' = (rootJobs (-) One(j)) (+) One([urls |-> f.urls])
                   /\ requested' = requested \cup {Last(f.urls)}
                   /\ UNCHANGED <<cur, queue, updated, log, ret>>
              [] f.state = "Err" ->
                   /\ Abort
                   /\ UNCHANGED <<requested, log>>
              [] f.state = "Ready" ->
                   IF IsErr(parse_vidx(f.body))
                   THEN /\ Abort
                        /\ UNCHANGED <<requested, log>>
                   ELSE /\ rootJobs' = rootJobs (-) One(j)
                        /\ cur' = flatmap_pdscs(parse_vidx(f.body))
                        /\ requested' = requested
                               \cup Requests(flatmap_pdscs(parse_vidx(f.body)).subJobs)
                        /\ log' = log (+) PointerLog(parse_vidx(f.body))
                        /\ UNCHANGED <<queue, updated, ret>>
    /\ UNCHANGED <<vidx_list, netUp, prev, existing, files, observed>>

\* one future of flatmap_pdscs makes progress, after the direct refs of the
\* Vidx and the refs of the earlier sub-indices have been taken
SubStep(j) ==
    /\ Running /\ Room
    /\ cur # None /\ cur.refs = <<>>
    /\ BagIn(j, cur.subJobs)
    /\ \E res \in Responses(Last(j.urls)) :
        LET f == Fetch(j.urls, res)
        IN  CASE f.state = "NotReady" ->
                   /\ cur' = [cur EXCEPT !.subJobs =
                                 (cur.subJobs (-) One(j)) (+) One([urls |-> f.urls])]
                   /\ requested' = requested \cup {Last(f.urls)}
                   /\ UNCHANGED <<rootJobs, queue, updated, ret>>
              [] f.state = "Err" ->
                   /\ Abort
                   /\ UNCHANGED requested
              [] f.state = "Ready" ->
                   /\ cur' = [refs |-> stream_pdscs(f.body),
                              subJobs |-> cur.subJobs (-) One(j)]
                   /\ UNCHANGED <<requested, rootJobs, queue, updated, ret>>
    /\ UNCHANGED <<vidx_list, netUp, prev, existing, files, log, observed>>

\* the buffer takes the next PdscRef: make_uri_fd_pair, filter_map, map, push
PullRef ==
    /\ Running /\ PullReady
    /\ \E placeOk \in BOOLEAN :
        LET pair == make_uri_fd_pair(cur.refs[1], placeOk)
        IN  CASE IsErr(pair) ->
                   /\ Abort
                   /\ UNCHANGED <<requested, log>>
              [] pair = None ->
                   /\ cur' = [cur EXCEPT !.refs = Tail(cur.refs)]
                   /\ log' = log (+) One(LogLine("Skipping", PdscFileName(cur.refs[1])))
                   /\ UNCHANGED <<requested, rootJobs, queue, updated, ret>>
              [] OTHER ->
                   /\ cur' = [cur EXCEPT !.refs = Tail(cur.refs)]
                   /\ queue' = queue (+) One([urls |-> <<pair.uri>>, url |-> pair.url,
                                              filename |-> pair.filename])
                   /\ requested' = requested \cup {pair.uri}
                   /\ UNCHANGED <<rootJobs, updated, log, ret>>
    /\ UNCHANGED <<vidx_list, netUp, prev, existing, files, observed>>

\* OpenOptions::new().write(true).create(true).open: the file is created
\* when absent and keeps its content otherwise
Opened(path) ==
    IF Exists(path) THEN files
    ELSE [p \in DOMAIN files \cup {path} |-> IF p = path THEN <<>> ELSE files[p]]

\* the first n bytes are written over the file from its start
Written(fs, path, bytes, n) ==
    [fs EXCEPT ![path] = SubSeq(bytes, 1, n) \o SubSeq(fs[path], n + 1, Len(fs[path]))]

\* what the file system can do when the body of res is written: open fails,
\* or write_all fails after n bytes, or all of the body is written
IoOutcomes(res) ==
    IF res.kind = "response" /\ res.status \notin RedirectCodes
    THEN {[openOk |-> FALSE, n |-> 0]}
         \cup {[openOk |-> TRUE, n |-> k] : k \in 0..Len(res.body)}
    ELSE {[openOk |-> TRUE, n |-> 0]}

\* the and_then closure of a download: open, write_all; openOk tells whether
\* open succeeds and n how many bytes write_all writes before it returns
write_body(filename, bytes, openOk, n) ==
    IF ~openOk THEN [item |-> Err, files |-> files]
    ELSE [item |-> IF n = Len(bytes) THEN filename ELSE Err,
          files |-> Written(Opened(filename), filename, bytes, n)]

\* an or_else that logs the error and hands it on
or_else_Propagate(j, fs) ==
    [state |-> "Ready", item |-> Err, files |-> fs,
     log |-> One(LogLine("RequestFailed", j.url))]

\* an or_else that yields the path of the failed download
or_else_Listed(j, fs) ==
    [state |-> "Ready", item |-> j.filename, files |-> fs,
     log |-> One(LogLine("RequestFailed", j.url))]

\* the or_else closure: the error is logged and the item becomes None
or_else(j, fs) ==
    [state |-> "Ready", item |-> None, files |-> fs,
     log |-> One(LogLine("RequestFailed", j.url))]

\* one poll of a buffered future whose current request has the answer res
download_job(j, res, openOk, n) ==
    LET f == Fetch(j.urls, res)
    IN  CASE f.state = "NotReady" -> [state |-> "NotReady", urls |-> f.urls]
          [] f.state = "Err" -> or_else(j, files)
          [] f.state = "Ready" ->
               LET w == write_body(j.filename, f.body, openOk, n)
               IN  IF IsErr(w.item) THEN or_else(j, w.files)
                   ELSE [state |-> "Ready", item |-> w.item, files |-> w.files,
                         log |-> EmptyBag]

\* the buffered future j is polled when its request has the answer res and
\* the file system behaves as io; an item that is an Err would pass through
\* buffer_unordered to collect
LeafPoll(j, res, io) ==
    LET r == download_job(j, res, io.openOk, io.n)
    IN  CASE r.state = "NotReady" ->
               /\ queue' = (queue (-) One(j)) (+) One([j EXCEPT !.urls = r.urls])
               /\ requested' = requested \cup {Last(r.urls)}
               /\ UNCHANGED <<files, updated, log, rootJobs, cur, ret>>
          [] r.state = "Ready" /\ IsErr(r.item) ->
               /\ Abort
               /\ files' = r.files
               /\ log' = log (+) r.log
               /\ UNCHANGED requested
          [] OTHER ->
               /\ queue' = queue (-) One(j)
               /\ files' = r.files
               /\ log' = log (+) r.log
               /\ updated' = IF r.item = None THEN updated
                             ELSE Append(updated, r.item)
               /\ UNCHANGED <<requested, rootJobs, cur, ret>>

\* one buffered future makes progress
LeafStep(j) ==
    /\ Running /\ ~PullReady
    /\ BagIn(j, queue)
    /\ \E res \in Responses(Last(j.urls)) : \E io \in IoOutcomes(res) :
        LeafPoll(j, res, io)
    /\ UNCHANGED <<vidx_list, netUp, prev, existing, observed>>

\* every stream has ended and the buffer is empty: collect yields the Vec
Collect ==
    /\ Running /\ OuterPolled
    /\ rootJobs = EmptyBag /\ queue = EmptyBag
    /\ ret' = "Ok"
    /\ cur' = None
    /\ UNCHANGED <<vidx_list, netUp, prev, existing, files, requested, rootJobs,
                   queue, updated, log, observed>>

\* whether a download of this call was logged as failed
Failed == \E l \in BagToSet(log) : l.kind = "RequestFailed"

\* update is called again with the same list, the network up or down
UpdateAgain ==
    /\ ~Running
    /\ prev' = [ret |-> ret, updated |-> updated, failed |-> Failed]
    /\ netUp' \in BOOLEAN
    /\ existing' = DOMAIN files
    /\ requested' = Requests(download_vidx_list(vidx_list).job)
    /\ rootJobs' = download_vidx_list(vidx_list).job
    /\ cur' = None
    /\ queue' = EmptyBag
    /\ updated' = <<>>
    /\ log' = download_vidx_list(vidx_list).log
    /\ ret' = "running"
    /\ UNCHANGED <<vidx_list, files, observed>>

Next ==
    \/ \E j \in BagToSet(rootJobs) : RootStep(j)
    \/ \E j \in (IF cur = None THEN {} ELSE BagToSet(cur.subJobs)) : SubStep(j)
    \/ PullRef
    \/ \E j \in BagToSet(queue) : LeafStep(j)
    \/ Collect
    \/ UpdateAgain

Spec == Init /\ [][Next]_vars

\* One call of update on a Vidx whose pdsc_index is longer than the buffer
InitMany ==
    /\ vidx_list = <<SeedC>>
    /\ netUp = TRUE
    /\ prev = None
    /\ files = EmptyStore
    /\ existing = DOMAIN files
    /\ requested = Requests(download_vidx_list(vidx_list).job)
    /\ rootJobs = download_vidx_list(vidx_list).job
    /\ cur = None
    /\ queue = EmptyBag
    /\ updated = <<>>
    /\ log = download_vidx_list(vidx_list).log
    /\ ret = "running"
    /\ current = None /\ gets = <<>> /\ redirects = 0

NextMany ==
    \/ \E j \in BagToSet(rootJobs) : RootStep(j)
    \/ PullRef
    \/ \E j \in BagToSet(queue) : LeafStep(j)
    \/ Collect

SpecMany == InitMany /\ [][NextMany]_vars

\* One call of update, run by core.run until the collected stream ends: the
\* reactor polls the pipeline again whenever a request has its answer, so a
\* step that stays possible is taken.
NextLive ==
    \/ \E j \in BagToSet(rootJobs) : RootStep(j)
    \/ \E j \in (IF cur = None THEN {} ELSE BagToSet(cur.subJobs)) : SubStep(j)
    \/ PullRef
    \/ \E j \in BagToSet(queue) : LeafStep(j)
    \/ Collect

SpecLive == Init /\ [][NextLive]_vars /\ WF_vars(NextLive)

\* PdscRefs whose names and versions hold dots
LeafV12 == PdscRef(HostH \o <<"/">>, <<"v">>, <<"n">>, <<"1", ".", "2">>)
LeafN1V2 == PdscRef(HostH \o <<"/">>, <<"v">>, <<"n", ".", "1">>, <<"2">>)

PairRefs == {Leaf1, Leaf2, LeafV12, LeafN1V2}

\* One call of update when the one Vidx has been parsed: its pdsc_index holds
\* two PdscRefs and its vendor_index is empty
InitPair ==
    /\ vidx_list = <<SeedA>>
    /\ netUp = TRUE
    /\ prev = None
    /\ files = EmptyStore
    /\ existing = DOMAIN files
    /\ requested = Requests(download_vidx_list(vidx_list).job)
    /\ rootJobs = EmptyBag
    /\ \E r1 \in PairRefs : \E r2 \in PairRefs \ {r1} :
          cur = flatmap_pdscs(Vidx(<<>>, <<r1, r2>>))
    /\ queue = EmptyBag
    /\ updated = <<>>
    /\ log = EmptyBag
    /\ ret = "running"
    /\ current = None /\ gets = <<>> /\ redirects = 0

NextPair ==
    \/ PullRef
    \/ \E j \in BagToSet(queue) : LeafStep(j)
    \/ Collect

SpecPair == InitPair /\ [][NextPair]_vars

\* ------------------------------------------------------------------------
\* One download, with its request, the answer and the file system in sight
\* ------------------------------------------------------------------------
\* the Location headers a server can send with a redirect from uri u: none,
\* the path alone, or the path on one of the two hosts
ChainLocations(u) ==
    {<<>>, UriPath(u), HostH \o UriPath(u), HostG \o UriPath(u)}

\* the answers to the request of the observed download
ChainAnswers(u) ==
    {[kind |-> "error"]}
    \cup (IF redirects < MaxHops
          THEN {[kind |-> "response", status |-> s, location |-> l, body |-> <<>>] :
                   s \in RedirectCodes, l \in ChainLocations(u)}
          ELSE {})
    \cup {[kind |-> "response", status |-> 200, location |-> <<>>,
           body |-> Content(u)]}
    \cup {[kind |-> "response", status |-> s, location |-> <<>>,
           body |-> ErrorPage] : s \in TerminalCodes \ {200}}

\* The state in which the buffer has just taken the one PdscRef of a Vidx:
\* make_uri_fd_pair gave the pair, Redirect::new called client.get.
InitRedirect ==
    /\ vidx_list = <<SeedA>>
    /\ netUp = TRUE
    /\ prev = None
    /\ files = EmptyStore
    /\ existing = DOMAIN files
    /\ rootJobs = EmptyBag
    /\ cur = [refs |-> <<>>, subJobs |-> EmptyBag]
    /\ updated = <<>>
    /\ log = EmptyBag
    /\ ret = "running"
    /\ redirects = 0
    /\ \E ref \in {Leaf1, Leaf1Mirror} :
        LET pair == make_uri_fd_pair(ref, TRUE)
        IN  /\ queue = One([urls |-> RedirectNew(pair.uri).urls, url |-> pair.url,
                            filename |-> pair.filename])
            /\ requested = {pair.uri}
            /\ gets = <<pair.uri>>
            /\ current = [uri |-> pair.uri, answer |-> None, io |-> None]

\* the transport answers the request in flight (self.current becomes ready);
\* io is what the file system will do when the body is written
Respond ==
    /\ Running /\ queue # EmptyBag
    /\ current.answer = None
    /\ \E res \in ChainAnswers(current.uri) : \E io \in IoOutcomes(res) :
        current' = [current EXCEPT !.answer = res, !.io = io]
    /\ UNCHANGED <<vidx_list, netUp, prev, existing, files, requested, rootJobs,
                   cur, queue, updated, log, ret, gets, redirects>>

\* the observed download is polled with the answer: Redirect::poll, and at
\* a terminal response the closures of download_pdscs
JobPoll(j) ==
    /\ Running /\ ~PullReady
    /\ BagIn(j, queue)
    /\ current.answer # None
    /\ LeafPoll(j, current.answer, current.io)
    /\ LET f == Fetch(j.urls, current.answer)
       IN  IF f.state = "NotReady"
           THEN /\ gets' = Append(gets, Last(f.urls))
                /\ current' = [uri |-> Last(f.urls), answer |-> None, io |-> None]
           ELSE UNCHANGED <<gets, current>>
    /\ redirects' = IF /\ current.answer.kind = "response"
                       /\ current.answer.status \in RedirectCodes
                    THEN redirects + 1 ELSE redirects
    /\ UNCHANGED <<vidx_list, netUp, prev, existing>>

NextRedirect ==
    \/ Respond
    \/ \E j \in BagToSet(queue) : JobPoll(j)
    \/ Collect

SpecRedirect == InitRedirect /\ [][NextRedirect]_vars

\* ------------------------------------------------------------------------
\* Properties
\* ------------------------------------------------------------------------
\* the PdscRefs of the index documents
AllRefs == {Leaf1, Leaf1Mirror, Leaf2, LeafBadUrl}

DestPath(ref) == place_data_file(PdscFileName(ref))

Count(seq, x) == Cardinality({i \in DOMAIN seq : seq[i] = x})

JobsFor(path) == {j \in BagToSet(queue) : j.filename = path}

\* C1, as stated: for every PdscRef whose destination path existed when
\* update was called, the collected list never holds that path and the uri
\* of its artifact is never requested during the call.
C1_NoRequestForUri ==
    \A ref \in AllRefs :
        (DestPath(ref) \in existing /\ UriParses(PdscUri(ref)))
            => /\ Count(updated, DestPath(ref)) = 0
               /\ ParseUri(PdscUri(ref)) \notin requested

\* C1, amended: for every PdscRef whose destination path existed when update
\* was called, the collected list never holds that path and no download is
\* ever buffered for that path; the uri of its artifact is requested only
\* for a PdscRef with another destination path, or as the target of a
\* redirect.
C1_NoDownloadForExisting ==
    \A ref \in AllRefs :
        DestPath(ref) \in existing
            => /\ Count(updated, DestPath(ref)) = 0
               /\ JobsFor(DestPath(ref)) = {}
               /\ DestPath(ref) \in DOMAIN files

\* the PdscRef of an existing file was skipped and the call returned
C1_Witness ==
    /\ Path1 \in existing
    /\ BagIn(LogLine("Skipping", PdscFileName(Leaf1)), log)
    /\ ParseUri(PdscUri(Leaf1)) \in requested
    /\ ret = "Ok"

\* a step in which the buffered download j ends in a failure: it leaves the
\* buffer and its url is logged
LeafFails(j) ==
    /\ BagIn(j, queue)
    /\ BagCardinality(queue') = BagCardinality(queue) - 1 \/ ret' = "Err"
    /\ ~BagIn(j, queue') \/ queue'[j] = queue[j] - 1
    /\ log' = log (+) One(LogLine("RequestFailed", j.url))

\* a step in which the buffered download j ends with its file written
LeafSucceeds(j) ==
    /\ BagIn(j, queue)
    /\ queue' = queue (-) One(j)
    /\ log' = log
    /\ ret' = "running"

\* C2: a step in which a download fails (transport error, Location that does
\* not parse, open error or write error) removes that download only: update
\* does not return an error, the other buffered downloads, the streams of
\* the indices and the collected list are as before; a download that
\* succeeds adds its path to the list, and the list that update returns with
\* Ok is the collected one, the buffer being empty.  Once every index is
\* resolved and every PdscRef is taken, update cannot return an error.
C2_LeafFailureIsolated ==
    [][/\ \A j \in BagToSet(queue) :
            /\ LeafFails(j)
                => /\ ret' = "running"
                   /\ queue' = queue (-) One(j)
                   /\ updated' = updated
                   /\ rootJobs' = rootJobs /\ cur' = cur
            /\ LeafSucceeds(j) => updated' = Append(updated, j.filename)
       /\ (Running /\ ret' = "Ok") => (queue = EmptyBag /\ updated' = updated)
       /\ (Running /\ rootJobs = EmptyBag /\ OuterPolled) => ret' # "Err"
      ]_vars

\* update returned Ok with a path although another download had failed
C2_Witness ==
    /\ ret = "Ok"
    /\ BagIn(LogLine("RequestFailed", Leaf1.url), log)
    /\ Count(updated, Path1) = 1
    /\ Count(updated, Path2) = 1

\* C3: the urls of the list that do not parse are logged and nothing is
\* requested for them; every url that parses is requested, whatever the
\* other urls of the list are.
C3_SeedIsolation ==
    \A i \in DOMAIN vidx_list :
        IF UriParses(vidx_list[i])
        THEN ParseUri(vidx_list[i]) \in requested
        ELSE /\ vidx_list[i] \notin requested
             /\ BagIn(LogLine("UrlDidNotParse", vidx_list[i]), log)
             /\ \A j \in BagToSet(rootJobs) : j.urls[1] # vidx_list[i]

\* a list with a url that does not parse, after which update returned the
\* paths downloaded through the url that parses
C3_Witness ==
    /\ \E i \in DOMAIN vidx_list : ~UriParses(vidx_list[i])
    /\ vidx_list[1] = SeedBad
    /\ ret = "Ok"
    /\ Count(updated, Path1) > 0
    /\ Count(updated, Path2) > 0

\* the call follows a call that returned Ok without a failed download
AfterCleanCall == prev # None /\ prev.ret = "Ok" /\ ~prev.failed

C5_RootFailureIsolated ==
    [][(Running /\ Room /\ OuterPolled /\ rootJobs # EmptyBag) => ret' # "Err"]_vars

\* C6, as stated: while the futures of the pointers of a vidx are polled,
\* the failure of one of them (transport error, or a body that is no pidx)
\* does not make update return an error.
C6_PointerFailureIsolated ==
    [][(Running /\ Room /\ cur # None /\ cur.refs = <<>> /\ cur.subJobs # EmptyBag)
            => ret' # "Err"]_vars

\* C7, as stated: when the buffer takes a PdscRef, an error of
\* make_uri_fd_pair (the uri does not parse, or place_data_file fails) does
\* not make update return an error.
C7_PairFailureIsolated ==
    [][(Running /\ PullReady) => ret' # "Err"]_vars

\* C8: the buffer never holds more than 32 downloads, however many PdscRefs
\* wait in the stream.
C8_BufferBound == BagCardinality(queue) <= BufferSize

\* the buffer is full again after one of its downloads failed and the last
\* of the waiting PdscRefs was taken
C8_Witness ==
    /\ BagCardinality(queue) = BufferSize
    /\ cur # None /\ cur.refs = <<>>
    /\ Failed
    /\ Running

\* C9, as stated: for a destination path that did not exist when update was
\* called, at most one download is buffered and the collected list holds
\* the path at most once, also when two PdscRefs of the same vendor, name
\* and version have different urls.
C9_FetchedOnce ==
    \A ref \in AllRefs :
        DestPath(ref) \notin existing
            => /\ \A j, k \in JobsFor(DestPath(ref)) : j = k /\ queue[j] = 1
               /\ Count(updated, DestPath(ref)) <= 1

\* a download enters the buffer in this step
Buffered(j) ==
    /\ Len(j.urls) = 1
    /\ BagIn(j, queue')
    /\ ~BagIn(j, queue) \/ queue'[j] > queue[j]

\* C10: every path of the collected list exists and did not exist when
\* update was called; a download is buffered only for a path that does not
\* exist at that moment; the list grows only by the path of a buffered
\* download that ends without a logged failure, and by every such path; the
\* skip of a PdscRef and the failure of a download leave the list as it is,
\* and update returns the list as collected.
C10_ListIsNewlyWritten ==
    /\ [](\A i \in DOMAIN updated :
              updated[i] \in DOMAIN files /\ updated[i] \notin existing)
    /\ [][/\ \A j \in BagToSet(queue') : Buffered(j) => j.filename \notin DOMAIN files
          /\ (Running /\ ret' = "running" /\ updated' # updated)
                => \E j \in BagToSet(queue) :
                      /\ queue' = queue (-) One(j)
                      /\ updated' = Append(updated, j.filename)
                      /\ log' = log
                      /\ j.filename \in DOMAIN files'
          /\ \A j \in BagToSet(queue) :
                LeafSucceeds(j) => updated' = Append(updated, j.filename)
          /\ (Running /\ ret' = "Ok") => updated' = updated
         ]_vars

\* update returned the one path it wrote, the PdscRefs of the existing file
\* having been skipped
C10_Witness ==
    /\ ret = "Ok"
    /\ updated = <<Path2>>
    /\ Path1 \in existing
    /\ BagIn(LogLine("Skipping", PdscFileName(Leaf1)), log)

\* the status codes the claims call redirects
ClaimedRedirects == {301, 302, 303, 307, 308}

IsRedirect(a) == a # None /\ a.kind = "response" /\ a.status \in ClaimedRedirects

IsTerminal(a) == a # None /\ a.kind = "response" /\ a.status \notin ClaimedRedirects

\* both parses of the Location succeed: the header as it is, and, when it
\* has no authority, the text made of the authority of old_uri and of it
LocationParses(old_uri, loc) ==
    /\ UriParses(loc)
    /\ Authority(ParseUri(loc)) = <<>> /\ Authority(old_uri) # <<>>
          => UriParses(Authority(old_uri) \o ParseUri(loc))

\* the uri those parses give
LocationUri(old_uri, loc) ==
    IF Authority(ParseUri(loc)) = <<>> /\ Authority(old_uri) # <<>>
    THEN ParseUri(Authority(old_uri) \o ParseUri(loc))
    ELSE ParseUri(loc)

\* the observed download was polled in this step
Polled == current.answer # None /\ (queue' # queue \/ redirects' # redirects)

\* C11: while the download is pending after N redirect responses, it has
\* called client.get N+1 times, for the uris of its visit list in order, and
\* the request in flight is the one for the last of them; a request is
\* issued only when the request before it was answered by a redirect, and
\* it goes to the uri of that Location; a redirect whose Location parses
\* keeps the download pending; a response of another status ends it with no
\* further request, and the bytes written to the file are the body of that
\* response.
C11_ChainOfRequests ==
    /\ [](\A j \in BagToSet(queue) :
              /\ gets = j.urls
              /\ Len(gets) = redirects + 1
              /\ current.uri = Last(gets))
    /\ []((queue = EmptyBag /\ IsTerminal(current.answer))
              => /\ Len(gets) = redirects + 1
                 /\ current.uri = Last(gets)
                 /\ \A i \in DOMAIN updated :
                       files[updated[i]] = current.answer.body)
    /\ [][/\ gets' # gets
              => /\ IsRedirect(current.answer)
                 /\ gets' = Append(gets, LocationUri(Last(gets), current.answer.location))
                 /\ current' = [uri |-> Last(gets'), answer |-> None, io |-> None]
          /\ (Polled /\ IsRedirect(current.answer)
                /\ LocationParses(Last(gets), current.answer.location))
              => /\ Len(gets') = Len(gets) + 1
                 /\ queue' # EmptyBag
          /\ (Polled /\ IsTerminal(current.answer))
              => /\ queue' = EmptyBag
                 /\ gets' = gets
                 /\ current' = current
         ]_vars

\* the download ended with the body of the response that followed two
\* redirects, after three requests
C11_Witness ==
    /\ ret = "Ok"
    /\ redirects = 2
    /\ Len(gets) = 3
    /\ IsTerminal(current.answer)
    /\ current.answer.status = 200
    /\ Len(updated) = 1
    /\ files[updated[1]] = current.answer.body

\* C12, as stated: when a download that has followed a redirect already is
\* answered by a redirect whose Location parses and has no authority, its
\* next request goes to the path of that Location on the authority of the
\* request before.
C12_RelativeLocation ==
    [][(/\ Polled
        /\ IsRedirect(current.answer)
        /\ Len(gets) > 1
        /\ UriParses(current.answer.location)
        /\ Authority(ParseUri(current.answer.location)) = <<>>)
            => /\ Len(gets') = Len(gets) + 1
               /\ Authority(Last(gets')) = Authority(Last(gets))
               /\ UriPath(Last(gets')) = current.answer.location
      ]_vars

\* C16: a download polled with a response of any status that is no redirect
\* (404 and 500 among them) ends without a request more; when the file
\* system does not fail, the body of that response is written to the
\* destination path from its start, the path is appended to the collected
\* list and nothing is logged.
C16_NoStatusValidation ==
    [][\A j \in BagToSet(queue) :
          (Polled /\ IsTerminal(current.answer))
            => /\ queue' = queue (-) One(j)
               /\ gets' = gets
               /\ (current.io.openOk /\ current.io.n = Len(current.answer.body))
                    => /\ j.filename \in DOMAIN files'
                       /\ SubSeq(files'[j.filename], 1, Len(current.answer.body))
                             = current.answer.body
                       /\ updated' = Append(updated, j.filename)
                       /\ log' = log
                       /\ ret' = "running"
      ]_vars

\* update returned the path of a file that holds the body of a 404 or 500
C16_Witness ==
    /\ ret = "Ok"
    /\ IsTerminal(current.answer)
    /\ current.answer.status \in {404, 500}
    /\ updated = <<Path1>>
    /\ Path1 \notin existing
    /\ files[Path1] = ErrorPage

\* C17: whatever the length of the visit list, a download polled with a
\* redirect whose Location parses stays pending, neither ended nor failed,
\* with a visit list one uri longer and a new request in flight; update
\* does not return while a download is pending.
C17_UnboundedHops ==
    /\ [](queue # EmptyBag => ret = "running")
    /\ [][\A j \in BagToSet(queue) :
              (Polled /\ IsRedirect(current.answer)
                 /\ LocationParses(Last(j.urls), current.answer.location))
                => /\ queue' = One([j EXCEPT !.urls =
                          Append(j.urls, LocationUri(Last(j.urls), current.answer.location))])
                   /\ current'.answer = None
                   /\ updated' = updated
                   /\ log' = log
                   /\ ret' = "running"
         ]_vars

\* two uris redirect to each other: the download is pending with a visit
\* list that holds each of them twice, and update has not returned
C17_Witness ==
    /\ Running
    /\ redirects = MaxHops
    /\ \E j \in BagToSet(queue) :
          /\ Len(j.urls) = MaxHops + 1
          /\ j.urls[1] # j.urls[2]
          /\ \A i \in 1..(Len(j.urls) - 2) : j.urls[i + 2] = j.urls[i]

\* C13: every request being answered and every redirect chain being finite,
\* a call of update whose pipeline is polled whenever a step is possible
\* returns, with Ok or with Err.
C13_UpdateReturns == <>(ret # "running")

\* update returned paths after a vidx request was redirected and a download
\* was skipped
C13_Witness ==
    /\ ret = "Ok"
    /\ HostG \o <<"/", "a">> \in requested
    /\ updated # <<>>
    /\ BagIn(LogLine("Skipping", PdscFileName(Leaf1)), log)

\* the fetches that are alive
AliveIn(B) == {j.urls : j \in BagToSet(B)}

Alive ==
    AliveIn(rootJobs) \cup AliveIn(queue)
        \cup (IF cur = None THEN {} ELSE AliveIn(cur.subJobs))

\* the index documents the servers hold
RootDocs == {RootA, RootB, RootC}

\* a future of download_vidx_list ends in this step with the Vidx vidx
RootParsed(vidx) ==
    \E j \in BagToSet(rootJobs) :
        /\ rootJobs' = rootJobs (-) One(j)
        /\ parse_vidx(Content(Last(j.urls))) = vidx
        /\ cur' = flatmap_pdscs(vidx)

\* the buffer takes the PdscRef at the head of the stream in this step, the
\* destination path being absent
RefTaken(j) ==
    /\ cur # None /\ cur.refs # <<>>
    /\ cur' = [cur EXCEPT !.refs = Tail(cur.refs)]
    /\ j.urls = <<ParseUri(PdscUri(cur.refs[1]))>>
    /\ j.url = cur.refs[1].url
    /\ j.filename = DestPath(cur.refs[1])
    /\ DestPath(cur.refs[1]) \notin DOMAIN files

\* C14: until a vidx future has ended, only the urls of the list are
\* requested.  A uri enters the requests of a call only as the target of a
\* redirect of a fetch that is alive, or as the uri of a pointer of a Vidx
\* that a vidx future yields in that step, or as the uri of the PdscRef that
\* the buffer takes from the stream in that step.  A sub-index fetch starts
\* only in the step in which the Vidx that lists its pointer is parsed, and
\* a download enters the buffer only when its PdscRef is at the head of the
\* stream and make_uri_fd_pair found its destination path absent.
C14_CausalOrder ==
    /\ []((Running /\ cur = None /\ queue = EmptyBag
              /\ rootJobs = download_vidx_list(vidx_list).job)
            => requested = Requests(download_vidx_list(vidx_list).job))
    /\ [][Running =>
          /\ \A u \in requested' \ requested :
                \/ \E urls \in Alive : Append(urls, u) \in Alive'
                \/ \E vidx \in RootDocs :
                      /\ RootParsed(vidx)
                      /\ \E i \in DOMAIN vidx.vendor_index :
                            /\ UriParses(UrlName(vidx.vendor_index[i]))
                            /\ u = ParseUri(UrlName(vidx.vendor_index[i]))
                \/ \E j \in BagToSet(queue') : Buffered(j) /\ RefTaken(j) /\ u = j.urls[1]
          /\ \A j \in BagToSet(queue') : Buffered(j) => RefTaken(j)
          /\ (cur' # None /\ cur' # cur)
                => \A j \in BagToSet(cur'.subJobs) :
                      (Len(j.urls) = 1 /\ (cur = None \/ ~BagIn(j, cur.subJobs)))
                          => \E vidx \in RootDocs :
                                /\ RootParsed(vidx)
                                /\ \E i \in DOMAIN vidx.vendor_index :
                                      j.urls[1] = ParseUri(UrlName(vidx.vendor_index[i]))
         ]_vars

\* the download of a PdscRef of one sub-index is buffered while the fetch of
\* the other sub-index of the Vidx is alive
C14_Witness ==
    /\ Running
    /\ cur # None /\ cur.subJobs # EmptyBag
    /\ JobsFor(Path2) # {}
    /\ ParseUri(PdscUri(Leaf2)) \in requested

\* the uris of the pointers of a Vidx
PointerUris(vidx) ==
    {ParseUri(UrlName(ParsablePointers(vidx)[i])) : i \in DOMAIN ParsablePointers(vidx)}

\* the sub-index fetches in flight all belong to the pointers of one Vidx
OneRootAtATime ==
    cur # None =>
        \E vidx \in RootDocs :
            \A j \in BagToSet(cur.subJobs) : j.urls[1] \in PointerUris(vidx)

\* C15, as stated: the sub-index fetches of different roots run beside each
\* other: while sub-index fetches of one Vidx are in flight and the buffer
\* has room, the vidx future of another url of the list can be polled, so
\* that the sub-index fetches of its Vidx start while those are in flight.
C15_RootsOverlap ==
    (Running /\ Room /\ rootJobs # EmptyBag
        /\ cur # None /\ cur.refs = <<>> /\ cur.subJobs # EmptyBag)
      => ENABLED (\E j \in BagToSet(rootJobs) : RootStep(j))

\* the bodies of the terminal responses to the request of a download
FullBodies(j) == {Content(Last(j.urls)), ErrorPage}

\* C18, as stated: when a download ends with its path appended to the
\* collected list, the file at that path holds the full body of the terminal
\* response to its request and nothing else, whatever the file held when it
\* was opened.
C18_FileIsBody ==
    [][\A j \in BagToSet(queue) :
          (LeafSucceeds(j) /\ updated' = Append(updated, j.filename))
            => /\ j.filename \in DOMAIN files'
               /\ files'[j.filename] \in FullBodies(j)
      ]_vars

Triple(ref) == <<ref.vendor, ref.name, ref.version>>

\* C19, as stated: when make_uri_fd_pair gives the pair of a PdscRef, the
\* file name and the destination path of that PdscRef differ from those of
\* every PdscRef of the stream whose vendor, name and version are not the
\* same three texts, so that no other download writes its file.
C19_FileNameInjective ==
    [][\A j \in BagToSet(queue') :
          (Buffered(j) /\ RefTaken(j))
            => \A i \in DOMAIN cur'.refs :
                  Triple(cur'.refs[i]) # Triple(cur.refs[1])
                    => /\ PdscFileName(cur'.refs[i]) # PdscFileName(cur.refs[1])
                       /\ DestPath(cur'.refs[i]) # j.filename
      ]_vars

\* C20, as stated: a download that ends in a failure (transport error, open
\* error or write error) leaves no file at its destination path when there
\* was none before it was polled, so that the next call fetches it again.
C20_NoFileAfterFailure ==
    [][\A j \in BagToSet(queue) :
          (LeafFails(j) /\ j.filename \notin DOMAIN files)
            => j.filename \notin DOMAIN files'
      ]_vars

====
